---- MODULE Spec2Model ----
(***************************************************************************)
(* A model of the support-ticket tracker: the record store (issues,        *)
(* events, AI jobs, programs, participants), the process-local owner sets, *)
(* the Slack app_mention handler and the batch AI-job worker.              *)
(*                                                                         *)
(* Every database commit and every outbound network call is one step, so   *)
(* that concurrent handlers and workers interleave exactly where the code  *)
(* lets them: between two commits, and while a request is outstanding.     *)
(*                                                                         *)
(* Row ids (uuid4 in the code) are the row's position in its table; the id *)
(* 0 stands for an id no row has.  A text that the code slices is a        *)
(* sequence of characters; a dict is a record.                             *)
(***************************************************************************)
EXTENDS Integers, Sequences, FiniteSets, TLC

VARIABLES
    issues,         \* table issues: sequence of rows, id = position
    events,         \* table events
    jobs,           \* table ai_jobs
    programs,       \* table programs: program_id -> row
    participants,   \* table participants: set of rows
    issue_owners,   \* issue_owners of module slack_bot.db, the one permissions.py
                    \* imports: issue id -> set of user ids
    channel_owners, \* channel_owners of module slack_bot.db: channel id -> set of user ids
    main_issue_owners, \* issue_owners of module db, the second instance of db.py
                    \* that main.py imports (from db import ...)
    api_key,        \* whether AI_API_KEY is configured
    requests,       \* job id -> number of requests process_ai_job sent to the endpoint for it
    starts,         \* job id -> number of process_ai_job calls made on it
    wpc,            \* worker -> position in process_pending_jobs
    wjobs,          \* worker -> the job ids get_pending_ai_jobs returned, not yet processed
    wcur,           \* worker -> the job process_ai_job is running on (0: none)
    wresp,          \* worker -> the endpoint's answer process_ai_job has received
    hpc,            \* handler -> position in handle_app_mention
    hloc,           \* handler -> its local variables
    posted,         \* handler -> the last message it sent with chat_postMessage
    mentions,       \* number of app_mention events delivered so far
    call,           \* the last call of a db.py or permissions.py function made
                    \* from outside the handler, or the last request to the
                    \* dashboard, with what it returned
    session         \* the dashboard session's user id ("": not logged in)

dbVars      == <<issues, events, jobs, programs, participants>>
ownerVars   == <<issue_owners, channel_owners, main_issue_owners>>
workerVars  == <<wpc, wjobs, wcur, wresp>>
handlerVars == <<hpc, hloc, posted, mentions>>
envVars     == <<api_key, call, session>>
vars == <<issues, events, jobs, programs, participants, issue_owners,
          channel_owners, main_issue_owners, api_key, session,
          requests, starts, wpc, wjobs, wcur, wresp, hpc, hloc, posted,
          mentions, call>>

-----------------------------------------------------------------------------
(* Bounds of the model *)

MaxJobs == 2        \* jobs the callers of create_ai_job add to the batch worker's store
MaxMentions == 2    \* app_mention events Slack delivers

Workers  == {"w1", "w2"}       \* concurrent runs of process_pending_jobs
Handlers == {"h1", "h2"}       \* concurrent listeners of app_mention
Users    == {"U1", "U2"}
Channels == {"C1", "C2"}       \* C1 belongs to program P1, C2 to no program
Threads  == {"T1"}

-----------------------------------------------------------------------------
(* Values *)

EmptyDict == [k \in {} |-> ""]

Min(a, b) == IF a < b THEN a ELSE b

\* s[:n]
Slice(s, n) == SubSeq(s, 1, Min(n, Len(s)))

\* The response contents the endpoint may return in choices[0].message.content.
JsonSummary == "{\"summary\": \"S\", \"main_issue\": \"M1\"}"
NotJson == "not json"
Contents == {JsonSummary, NotJson}

\* What the text-generation endpoint may answer to one request.
Responses ==
    {[timeout |-> TRUE, status |-> 0, wellformed |-> FALSE, content |-> ""]}
    \cup {[timeout |-> FALSE, status |-> 500, wellformed |-> FALSE, content |-> ""]}
    \cup {[timeout |-> FALSE, status |-> 200, wellformed |-> FALSE, content |-> ""]}
    \cup {[timeout |-> FALSE, status |-> 200, wellformed |-> TRUE, content |-> c] :
             c \in Contents}

\* No answer received.
NoResponse == [timeout |-> FALSE, status |-> 0, wellformed |-> FALSE, content |-> ""]

JobTypes == {"full_extraction", "quick_tag"}

\* No call made yet.
NoCall == [op |-> ""]

-----------------------------------------------------------------------------
(* ai_handler.py *)

\* A row of ai_jobs as create_ai_job builds it.
NewJobRow(event_id, job_type) ==
    [event_id |-> event_id, job_type |-> job_type, status |-> "pending",
     output |-> EmptyDict, completed_at |-> FALSE]

\* create_ai_job with the job started at once instead of left pending.
create_ai_job_started(tbl, event_id, job_type) ==
    Append(tbl, [NewJobRow(event_id, job_type) EXCEPT !.status = "processing"])

\* create_ai_job: the table after the insert.
create_ai_job(tbl, event_id, job_type) ==
    Append(tbl, NewJobRow(event_id, job_type))

\* get_pending_ai_jobs: the ids of the pending jobs, in insertion order.
RECURSIVE PendingFrom(_, _)
PendingFrom(tbl, i) ==
    IF i > Len(tbl) THEN <<>>
    ELSE IF tbl[i].status = "pending"
         THEN <<i>> \o PendingFrom(tbl, i + 1)
         ELSE PendingFrom(tbl, i + 1)

get_pending_ai_jobs(tbl) == PendingFrom(tbl, 1)

\* json.loads on a response content: the parsed object, or a JSONDecodeError.
json_loads(content) ==
    IF content = JsonSummary
    THEN [ok |-> TRUE, value |-> [summary |-> "S", main_issue |-> <<"M", "1">>]]
    ELSE [ok |-> FALSE, value |-> EmptyDict]

\* call_ai_api once the request was sent: the exception raised, if any.
\* httpx raises on a timeout, raise_for_status on a 4xx/5xx status.
call_ai_api(resp) ==
    IF resp.timeout THEN [raised |-> TRUE, msg |-> "ReadTimeout"]
    ELSE IF resp.status >= 400 /\ resp.status < 600
         THEN [raised |-> TRUE, msg |-> "HTTPStatusError"]
         ELSE [raised |-> FALSE, msg |-> ""]

\* summarize_thread without the JSONDecodeError fallback of lines 123-127: the
\* decode error reaches the handler of line 131.
summarize_response_no_fallback(resp) ==
    LET r == call_ai_api(resp) IN
    IF r.raised THEN [error |-> r.msg]
    ELSE IF ~resp.wellformed THEN [error |-> "KeyError: 'choices'"]
    ELSE LET p == json_loads(resp.content) IN
         IF p.ok THEN p.value ELSE [error |-> "JSONDecodeError"]

\* summarize_thread, lines 116-132: the summary built from the endpoint's answer.
summarize_response(resp) ==
    LET r == call_ai_api(resp) IN
    IF r.raised THEN [error |-> r.msg]
    ELSE IF ~resp.wellformed THEN [error |-> "KeyError: 'choices'"]
    ELSE LET p == json_loads(resp.content) IN
         IF p.ok THEN p.value
         ELSE [summary |-> resp.content, raw_response |-> resp.content]

\* get_issue_events: the ids of the non-deleted events of an issue, oldest first.
RECURSIVE EventsFrom(_, _, _)
EventsFrom(tbl, issue_id, i) ==
    IF i > Len(tbl) THEN <<>>
    ELSE IF tbl[i].issue_id = issue_id /\ ~tbl[i].deleted_at
         THEN <<i>> \o EventsFrom(tbl, issue_id, i + 1)
         ELSE EventsFrom(tbl, issue_id, i + 1)

get_issue_events(tbl, issue_id) == EventsFrom(tbl, issue_id, 1)

\* summarize_thread with the test of AI_API_KEY (line 46) left out of
\* call_ai_api: the request is sent without a key.
summarize_precheck_no_key_test(issue_id) ==
    IF get_issue_events(events, issue_id) = <<>>
    THEN [send |-> FALSE, summary |-> [error |-> "No messages found for this issue"]]
    ELSE [send |-> TRUE, summary |-> EmptyDict]

\* summarize_thread before the request: "none" when it returns without calling
\* the endpoint (no events, or no API key: call_ai_api raises ValueError first),
\* "send" when it posts the request.
summarize_precheck(issue_id) ==
    IF get_issue_events(events, issue_id) = <<>>
    THEN [send |-> FALSE, summary |-> [error |-> "No messages found for this issue"]]
    ELSE IF ~api_key
         THEN [send |-> FALSE,
               summary |-> [error |-> "AI_API_KEY environment variable is not set"]]
         ELSE [send |-> TRUE, summary |-> EmptyDict]

\* process_ai_job, lines 138-140: the row after status = "processing" is committed.
job_processing(row) == [row EXCEPT !.status = "processing"]

\* process_ai_job, lines 144-147, 152-155, 169-173: the row of a rejected job.
job_failed(row, msg) ==
    [row EXCEPT !.status = "failed", !.output = [error |-> msg]]

\* process_ai_job, lines 161-163: the row of an executed full_extraction job.
job_completed(row, summary) ==
    [row EXCEPT !.status = "completed", !.output = summary, !.completed_at = TRUE]

\* Lines 165-166 left out: the event is not touched.
event_without_metadata(row, summary) == row

\* process_ai_job, lines 165-166: the anchor event with the summary attached.
event_with_metadata(row, summary) == [row EXCEPT !.ai_metadata = summary]

\* resolve_error without the issue check of lines 150-156.
resolve_error_event_only(job) ==
    IF job.event_id \notin DOMAIN events THEN "Event not found" ELSE ""

\* process_ai_job, lines 142-156: what resolving the anchor event and its issue
\* gives: the error of the first missing row, or "" when both rows exist.
\* Neither query filters on deleted_at.
resolve_error(job) ==
    IF job.event_id \notin DOMAIN events THEN "Event not found"
    ELSE IF events[job.event_id].issue_id \notin DOMAIN issues THEN "Issue not found"
    ELSE ""

\* The job kind is not looked at: every job is run as a full_extraction.
job_type_error_none(job) == ""

\* process_ai_job, lines 158 and 168-170: the error of a job kind that is not run.
job_type_error(job) ==
    IF job.job_type = "full_extraction" THEN ""
    ELSE "Unknown job type: " \o job.job_type

\* process_pending_jobs, lines 192-195: where the run is once process_ai_job
\* has returned: at the next job of its list, or over.
AfterJob(rest) == IF rest = <<>> THEN "idle" ELSE "loop"

\* process_ai_job, lines 161-173: the commit that ends a full_extraction run.
FinishJob(w, summary) ==
    LET j == wcur[w] IN
    /\ jobs' = [jobs EXCEPT ![j] = job_completed(@, summary)]
    /\ events' = [events EXCEPT ![jobs[j].event_id] = event_with_metadata(@, summary)]
    /\ wpc' = [wpc EXCEPT ![w] = AfterJob(wjobs[w])]
    /\ wcur' = [wcur EXCEPT ![w] = 0]

\* process_ai_job, lines 144-148, 152-156, 169-176: the commit that rejects a job.
FailJob(w, msg) ==
    /\ jobs' = [jobs EXCEPT ![wcur[w]] = job_failed(@, msg)]
    /\ wpc' = [wpc EXCEPT ![w] = AfterJob(wjobs[w])]
    /\ wcur' = [wcur EXCEPT ![w] = 0]
    /\ UNCHANGED events

-----------------------------------------------------------------------------
(* The batch worker: process_pending_jobs and the steps of process_ai_job *)

\* process_pending_jobs, lines 190-192: a run starts and lists the pending
\* jobs; with none pending it returns at once.
ProcessPendingJobs(w) ==
    /\ wpc[w] = "idle"
    /\ wjobs' = [wjobs EXCEPT ![w] = get_pending_ai_jobs(jobs)]
    /\ wpc' = [wpc EXCEPT ![w] = AfterJob(get_pending_ai_jobs(jobs))]
    /\ UNCHANGED <<dbVars, ownerVars, envVars, requests, starts, wcur, wresp,
                   handlerVars>>

\* process_ai_job, lines 136-140, called on the next job of the list: the job
\* object the worker holds was loaded by get_pending_ai_jobs, so the UPDATE is
\* unconditional, whatever the row's status is by now.
ProcessStart(w) ==
    /\ wpc[w] = "loop"
    /\ wjobs[w] # <<>>
    /\ LET j == Head(wjobs[w]) IN
       /\ jobs' = [jobs EXCEPT ![j] = job_processing(@)]
       /\ starts' = [starts EXCEPT ![j] = @ + 1]
       /\ wcur' = [wcur EXCEPT ![w] = j]
    /\ wjobs' = [wjobs EXCEPT ![w] = Tail(@)]
    /\ wpc' = [wpc EXCEPT ![w] = "claimed"]
    /\ UNCHANGED <<issues, events, programs, participants, ownerVars, envVars,
                   requests, wresp, handlerVars>>

\* process_ai_job, lines 142-176, up to the await of the endpoint's answer:
\* the job is rejected, or summarize_thread returns without a request and the
\* job is completed with what it returned, or the request is sent.
Resolve(w) ==
    /\ wpc[w] = "claimed"
    /\ LET j == wcur[w]
           job == jobs[j]
           pre == summarize_precheck(events[job.event_id].issue_id)
       IN
       IF resolve_error(job) # ""
       THEN FailJob(w, resolve_error(job)) /\ UNCHANGED requests
       ELSE IF job_type_error(job) # ""
       THEN FailJob(w, job_type_error(job)) /\ UNCHANGED requests
       ELSE IF pre.send
       THEN /\ requests' = [requests EXCEPT ![j] = @ + 1]
            /\ wpc' = [wpc EXCEPT ![w] = "calling"]
            /\ UNCHANGED <<jobs, events, wcur>>
       ELSE FinishJob(w, pre.summary) /\ UNCHANGED requests
    /\ UNCHANGED <<issues, programs, participants, ownerVars, envVars, starts,
                   wjobs, wresp, handlerVars>>

\* summarize_thread, line 117: the await ends: the endpoint has answered, or
\* the call has failed.
Respond(w) ==
    /\ wpc[w] = "calling"
    /\ \E resp \in Responses : wresp' = [wresp EXCEPT ![w] = resp]
    /\ wpc' = [wpc EXCEPT ![w] = "answered"]
    /\ UNCHANGED <<dbVars, ownerVars, envVars, requests, starts, wjobs, wcur,
                   handlerVars>>

\* process_ai_job, lines 159-176: the job is committed with the summary
\* summarize_thread returns.  No exception reaches line 178: summarize_thread
\* catches every Exception of the call.
Finish(w) ==
    /\ wpc[w] = "answered"
    /\ FinishJob(w, summarize_response(wresp[w]))
    /\ wresp' = [wresp EXCEPT ![w] = NoResponse]
    /\ UNCHANGED <<issues, programs, participants, ownerVars, envVars, requests,
                   starts, wjobs, handlerVars>>

\* The worker's process dies inside process_ai_job; the run is never resumed.
Crash(w) ==
    /\ wpc[w] \in {"claimed", "calling"}
    /\ wpc' = [wpc EXCEPT ![w] = "stopped"]
    /\ UNCHANGED <<dbVars, ownerVars, envVars, requests, starts, wjobs, wcur, wresp,
                   handlerVars>>

\* A caller of create_ai_job (any event id, any job kind).
CreateAiJob(event_id, job_type) ==
    /\ Len(jobs) < MaxJobs
    /\ jobs' = create_ai_job(jobs, event_id, job_type)
    /\ requests' = Append(requests, 0)
    /\ starts' = Append(starts, 0)
    /\ UNCHANGED <<issues, events, programs, participants, ownerVars, envVars,
                   workerVars, handlerVars>>

\* process_pending_jobs, lines 190-192, started by a scheduler that keeps what
\* the run was started on: the worker and the list get_pending_ai_jobs returned.
Drain(w) ==
    /\ wpc[w] = "idle"
    /\ wjobs' = [wjobs EXCEPT ![w] = get_pending_ai_jobs(jobs)]
    /\ wpc' = [wpc EXCEPT ![w] = AfterJob(get_pending_ai_jobs(jobs))]
    /\ call' = [op |-> "process_pending_jobs", worker |-> w,
                listed |-> get_pending_ai_jobs(jobs)]
    /\ UNCHANGED <<dbVars, ownerVars, api_key, session, requests, starts, wcur,
                   wresp, handlerVars>>

WorkerStep(w) ==
    \/ ProcessPendingJobs(w)
    \/ ProcessStart(w)
    \/ Resolve(w)
    \/ Respond(w)
    \/ Finish(w)
    \/ Crash(w)

-----------------------------------------------------------------------------
(* slack_bot/db.py *)

P1Row == [name |-> "Program 1", owners |-> {"U2"}, channels |-> {"C1"},
          deleted_at |-> FALSE]

\* create_issue_from_thread, lines 39-46: the row inserted.
NewIssueRow(title, description, root_thread_id) ==
    [program_id |-> "", title |-> title, description |-> description,
     status |-> "unverified", priority |-> "low", source |-> "slack",
     root_thread_id |-> root_thread_id, deleted_at |-> FALSE]

\* The composite thread key f"{channel_id}:{thread_ts}".
thread_key(channel_id, thread_ts) == channel_id \o ":" \o thread_ts

\* create_issue_from_thread: the table after the insert.  A title or
\* description that is empty is replaced by the default.
create_issue_from_thread(tbl, thread_ts, channel_id, title, description) ==
    Append(tbl, NewIssueRow(IF title # <<>> THEN title
                            ELSE <<"Issue from Slack thread ", thread_ts>>,
                            description,
                            thread_key(channel_id, thread_ts)))

\* save_thread_messages_as_events, lines 90-99: the row of one message.
NewEventRow(issue_id, msg) ==
    [issue_id |-> issue_id, source |-> "slack", external_id |-> msg.ts,
     author |-> msg.user, body |-> msg.text, event_type |-> "message_added",
     ai_metadata |-> EmptyDict, deleted_at |-> FALSE]

\* save_thread_messages_as_events: the table after the inserts.
save_thread_messages_as_events(tbl, issue_id, messages) ==
    tbl \o [k \in 1..Len(messages) |-> NewEventRow(issue_id, messages[k])]

\* The texts a "%" of a LIKE pattern stands for in the keys of the store: none,
\* or a channel id.
KeyPrefixes == {""} \cup Channels

\* Issue.root_thread_id.like(f"%:{thread_ts}"), line 150.
like_suffix(root_thread_id, thread_ts) ==
    \E prefix \in KeyPrefixes : root_thread_id = prefix \o ":" \o thread_ts

\* get_issue_by_thread_id with the filter on deleted_at left out of the query
\* made without a channel.
thread_query_legacy_unfiltered(thread_ts, channel_id) ==
    {i \in DOMAIN issues :
        IF channel_id # ""
        THEN /\ issues[i].root_thread_id = thread_key(channel_id, thread_ts)
             /\ ~issues[i].deleted_at
        ELSE \/ issues[i].root_thread_id = thread_ts
             \/ like_suffix(issues[i].root_thread_id, thread_ts)}

\* get_issue_by_thread_id, lines 140-152: the rows its query selects.  With a
\* channel (lines 140-146): the non-deleted issues stored under the composite
\* key.  Without one (lines 147-152): the non-deleted issues stored under the
\* bare thread id or under a key that ends with ":" and the thread id.
thread_query(thread_ts, channel_id) ==
    {i \in DOMAIN issues :
        /\ IF channel_id # ""
           THEN issues[i].root_thread_id = thread_key(channel_id, thread_ts)
           ELSE \/ issues[i].root_thread_id = thread_ts
                \/ like_suffix(issues[i].root_thread_id, thread_ts)
        /\ ~issues[i].deleted_at}

\* get_issue_by_thread_id as the handler uses it: the id of the first row of
\* the query in insertion order, 0 when the query selects none.
get_issue_by_thread_id(thread_ts, channel_id) ==
    LET hits == thread_query(thread_ts, channel_id)
    IN IF hits = {} THEN 0 ELSE CHOOSE i \in hits : \A k \in hits : i <= k

\* get_program_by_channel: the program_id of a non-deleted program that lists
\* the channel, "" when there is none.
get_program_by_channel(channel_id) ==
    LET hits == {p \in DOMAIN programs :
                    channel_id \in programs[p].channels /\ ~programs[p].deleted_at}
    IN IF hits = {} THEN "" ELSE CHOOSE p \in hits : TRUE

\* The call of link_issue_to_program left out.
link_issue_to_program_skipped(tbl, issue_id, program_id) == tbl

\* link_issue_to_program with the filter on the program's deleted_at left out.
link_issue_to_program_any_program(tbl, issue_id, program_id) ==
    IF program_id \notin DOMAIN programs THEN tbl
    ELSE IF issue_id \notin DOMAIN tbl THEN tbl
    ELSE [tbl EXCEPT ![issue_id].program_id = program_id]

\* link_issue_to_program: the issues table after the call (unchanged when no
\* non-deleted program has the program_id, or no issue has the id).
link_issue_to_program(tbl, issue_id, program_id) ==
    IF program_id \notin DOMAIN programs \/ programs[program_id].deleted_at
    THEN tbl
    ELSE IF issue_id \notin DOMAIN tbl THEN tbl
    ELSE [tbl EXCEPT ![issue_id].program_id = program_id]

\* link_issue_to_program: what it returns, the issue's id or 0 for None.
link_issue_to_program_result(tbl, issue_id, program_id) ==
    IF program_id \notin DOMAIN programs \/ programs[program_id].deleted_at
    THEN 0
    ELSE IF issue_id \notin DOMAIN tbl THEN 0
    ELSE issue_id

\* set_issue_owner
set_issue_owner(owners, issue_id, user_id) ==
    IF issue_id \in DOMAIN owners
    THEN [owners EXCEPT ![issue_id] = @ \cup {user_id}]
    ELSE [i \in DOMAIN owners \cup {issue_id} |->
             IF i = issue_id THEN {user_id} ELSE owners[i]]

\* is_issue_owner, is_channel_owner
is_issue_owner(issue_id, user_id) ==
    issue_id \in DOMAIN issue_owners /\ user_id \in issue_owners[issue_id]

is_channel_owner(channel_id, user_id) ==
    channel_id \in DOMAIN channel_owners /\ user_id \in channel_owners[channel_id]

\* add_participant: the row inserted.
NewParticipantRow(issue_id, slack_user_id, role) ==
    [issue_id |-> issue_id, slack_user_id |-> slack_user_id, role |-> role]

\* dict.get(key) is truthy: the key is there and its value is not empty
\* (a str value, a list or sliced-text value).
TruthyStr(d, key) == key \in DOMAIN d /\ d[key] # ""

TruthySeq(d, key) == key \in DOMAIN d /\ d[key] # <<>>

\* The bullet character U+2022 of lines 190 and 195 (written "*" here: a
\* string of this module holds ASCII only).
Bullet == "*"

\* update_issue_from_ai, lines 187-195: the lines of one bullet block.
RECURSIVE BulletLines(_)
BulletLines(items) ==
    IF items = <<>> THEN ""
    ELSE "\n" \o Bullet \o " " \o Head(items) \o BulletLines(Tail(items))

\* update_issue_from_ai, lines 184-197: "\n".join(description_parts).
ai_description(s) ==
    s.summary
    \o (IF TruthySeq(s, "key_points")
        THEN "\n\n\nKey Points:" \o BulletLines(s.key_points) ELSE "")
    \o (IF TruthySeq(s, "action_items")
        THEN "\n\n\nAction Items:" \o BulletLines(s.action_items) ELSE "")

\* update_issue_from_ai with the filter on the issue's deleted_at left out.
update_issue_from_ai_deleted_too(tbl, issue_id, s) ==
    IF issue_id \notin DOMAIN tbl THEN tbl
    ELSE [tbl EXCEPT
            ![issue_id].title =
                IF TruthySeq(s, "main_issue") THEN Slice(s.main_issue, 200) ELSE @,
            ![issue_id].description =
                IF TruthyStr(s, "summary") THEN ai_description(s) ELSE @]

\* update_issue_from_ai: what it returns, the issue's id or 0 for None.
update_issue_from_ai_result(tbl, issue_id) ==
    IF issue_id \notin DOMAIN tbl \/ tbl[issue_id].deleted_at THEN 0 ELSE issue_id

\* update_issue_from_ai: the issues table after the call (unchanged when the
\* issue has no row or is soft-deleted).
update_issue_from_ai(tbl, issue_id, s) ==
    IF issue_id \notin DOMAIN tbl \/ tbl[issue_id].deleted_at THEN tbl
    ELSE [tbl EXCEPT
            ![issue_id].title =
                IF TruthySeq(s, "main_issue") THEN Slice(s.main_issue, 200) ELSE @,
            ![issue_id].description =
                IF TruthyStr(s, "summary") THEN ai_description(s) ELSE @]

-----------------------------------------------------------------------------
(* slack_bot/permissions.py *)

ADMIN_USERS == {"UA"}

\* get_issue_with_program(issue_id)["program"]["owners"]: the owners of the
\* program the issue is linked to ({} when the issue or the link is missing;
\* the relationship loads the program whether or not it is soft-deleted).
issue_program_owners(issue_id) ==
    IF issue_id \notin DOMAIN issues THEN {}
    ELSE IF issues[issue_id].program_id \notin DOMAIN programs THEN {}
    ELSE programs[issues[issue_id].program_id].owners

\* get_user_permission, lines 25-28: the channel is given, a non-deleted
\* program lists it and lists the user among its owners.
channel_program_owner(user_id, channel_id) ==
    /\ channel_id # ""
    /\ get_program_by_channel(channel_id) # ""
    /\ user_id \in programs[get_program_by_channel(channel_id)].owners

\* get_user_permission with the program owners looked up before the admins.
get_user_permission_program_first(user_id, channel_id, issue_id) ==
    IF channel_program_owner(user_id, channel_id) THEN "program_owner"
    ELSE IF issue_id # 0 /\ user_id \in issue_program_owners(issue_id)
         THEN "program_owner"
    ELSE IF user_id \in ADMIN_USERS THEN "admin"
    ELSE IF channel_id # "" /\ is_channel_owner(channel_id, user_id) THEN "owner"
    ELSE IF issue_id # 0 /\ is_issue_owner(issue_id, user_id) THEN "owner"
    ELSE "user"

\* get_user_permission with the owner sets looked up before the programs.
get_user_permission_owner_first(user_id, channel_id, issue_id) ==
    IF user_id \in ADMIN_USERS THEN "admin"
    ELSE IF channel_id # "" /\ is_channel_owner(channel_id, user_id) THEN "owner"
    ELSE IF issue_id # 0 /\ is_issue_owner(issue_id, user_id) THEN "owner"
    ELSE IF channel_program_owner(user_id, channel_id) THEN "program_owner"
    ELSE IF issue_id # 0 /\ user_id \in issue_program_owners(issue_id)
         THEN "program_owner"
    ELSE "user"

\* get_user_permission with the issue's program looked up only when no program
\* lists the channel.
get_user_permission_channel_only(user_id, channel_id, issue_id) ==
    IF user_id \in ADMIN_USERS THEN "admin"
    ELSE IF channel_program_owner(user_id, channel_id) THEN "program_owner"
    ELSE IF /\ channel_id = "" \/ get_program_by_channel(channel_id) = ""
            /\ issue_id # 0 /\ user_id \in issue_program_owners(issue_id)
         THEN "program_owner"
    ELSE IF channel_id # "" /\ is_channel_owner(channel_id, user_id) THEN "owner"
    ELSE IF issue_id # 0 /\ is_issue_owner(issue_id, user_id) THEN "owner"
    ELSE "user"

\* get_user_permission; "" stands for a channel_id left out, 0 for an
\* issue_id left out.
get_user_permission(user_id, channel_id, issue_id) ==
    IF user_id \in ADMIN_USERS THEN "admin"
    ELSE IF channel_program_owner(user_id, channel_id) THEN "program_owner"
    ELSE IF issue_id # 0 /\ user_id \in issue_program_owners(issue_id)
         THEN "program_owner"
    ELSE IF channel_id # "" /\ is_channel_owner(channel_id, user_id) THEN "owner"
    ELSE IF issue_id # 0 /\ is_issue_owner(issue_id, user_id) THEN "owner"
    ELSE "user"

\* class Permission
Permission == {"user", "owner", "program_owner", "admin"}

\* has_permission, lines 55-60, with the values of OWNER and PROGRAM_OWNER
\* exchanged.
permission_hierarchy_exchanged(perm) ==
    CASE perm = "user" -> 0
      [] perm = "owner" -> 2
      [] perm = "program_owner" -> 1
      [] perm = "admin" -> 3

\* has_permission, lines 55-60: the dict permission_hierarchy.
permission_hierarchy(perm) ==
    CASE perm = "user" -> 0
      [] perm = "owner" -> 1
      [] perm = "program_owner" -> 2
      [] perm = "admin" -> 3

\* has_permission
has_permission(user_id, required_permission, channel_id, issue_id) ==
    permission_hierarchy(get_user_permission(user_id, channel_id, issue_id))
        >= permission_hierarchy(required_permission)

\* The text the wrapper of require_permission passes to say.
denial_text(required_permission) ==
    "You need " \o required_permission \o " permission to perform this action."

\* The wrapper built by require_permission, called on an event of user_id in
\* channel_id: whether it calls the guarded function, and the text it passes
\* to say.  say: the caller passed a keyword argument say (line 76 takes a
\* function that does nothing when it did not).
require_permission(required_permission, user_id, channel_id, say) ==
    IF ~has_permission(user_id, required_permission, channel_id, 0)
    THEN [ran |-> FALSE,
          said |-> IF say THEN denial_text(required_permission) ELSE ""]
    ELSE [ran |-> TRUE, said |-> ""]

-----------------------------------------------------------------------------
(* slack_bot/main.py: handle_app_mention *)

Msg1 == [ts |-> "T1", user |-> "U1", text |-> <<"h", "e", "l", "p">>]
Msg2 == [ts |-> "T1.1", user |-> "U2", text |-> <<"o", "k">>]
MsgLong == [ts |-> "T1", user |-> "U2", text |-> [k \in 1..101 |-> "x"]]

\* What get_all_messages may return for a thread.
ThreadMessages == {<<>>, <<Msg1, Msg2>>, <<MsgLong>>}

\* The locals of a handler that is not running.
HIdle == [user |-> "", channel |-> "", thread_ts |-> "", program |-> "",
          messages |-> <<>>, issue |-> 0, events |-> <<>>]

\* handle_app_mention, lines 123-124 and 129: the title of the new issue.
mention_title(messages) ==
    LET text == IF messages = <<>> THEN <<>> ELSE messages[1].text
        title == Slice(text, 100)
                 \o (IF Len(text) > 100 THEN <<".", ".", ".">> ELSE <<>>)
    IN IF title # <<>> THEN title ELSE <<"Untitled Issue">>

\* handle_app_mention, lines 149-160: the watchers added for the thread.
mention_watchers(issue_id, user, messages) ==
    {NewParticipantRow(issue_id, messages[k].user, "watcher") :
        k \in {n \in 1..Len(messages) : messages[n].user # user}}

\* chat_postMessage: the message sent.
Post(h, channel, thread_ts, text, issue_id, role, program) ==
    posted' = [posted EXCEPT ![h] =
                  [channel |-> channel, thread_ts |-> thread_ts, text |-> text,
                   issue |-> issue_id, role |-> role, program |-> program]]

HDone(h) ==
    /\ hpc' = [hpc EXCEPT ![h] = "idle"]
    /\ hloc' = [hloc EXCEPT ![h] = HIdle]

HGoto(h, pc) == hpc' = [hpc EXCEPT ![h] = pc]

\* Lines 92-110: the event arrives; without a thread the bot greets, in a
\* channel of no program it declines.
Mention(h, user, channel, thread_ts) ==
    /\ hpc[h] = "idle"
    /\ mentions < MaxMentions
    /\ mentions' = mentions + 1
    /\ IF thread_ts = ""
       THEN /\ Post(h, channel, "", "hello", 0, "", "")
            /\ UNCHANGED <<hpc, hloc>>
       ELSE IF get_program_by_channel(channel) = ""
       THEN /\ Post(h, channel, thread_ts, "not managed", 0, "", "")
            /\ UNCHANGED <<hpc, hloc>>
       ELSE /\ hloc' = [hloc EXCEPT ![h] =
                          [HIdle EXCEPT !.user = user, !.channel = channel,
                                        !.thread_ts = thread_ts,
                                        !.program = get_program_by_channel(channel)]]
            /\ HGoto(h, "lookup")
            /\ UNCHANGED posted
    /\ UNCHANGED <<dbVars, ownerVars, envVars, requests, starts, workerVars>>

\* Lines 112-121: the thread's issue is looked up; when there is none the
\* thread's messages are fetched.
Lookup(h) ==
    /\ hpc[h] = "lookup"
    /\ LET l == hloc[h]
           existing == get_issue_by_thread_id(l.thread_ts, l.channel)
       IN IF existing # 0
          THEN /\ Post(h, l.channel, l.thread_ts, "exists", existing, "", "")
               /\ HDone(h)
          ELSE /\ \E msgs \in ThreadMessages :
                      hloc' = [hloc EXCEPT ![h].messages = msgs]
               /\ HGoto(h, "create")
               /\ UNCHANGED posted
    /\ UNCHANGED <<dbVars, ownerVars, envVars, requests, starts, workerVars,
                   mentions>>

\* Lines 123-131: create_issue_from_thread.
CreateIssue(h) ==
    /\ hpc[h] = "create"
    /\ LET l == hloc[h] IN
       issues' = create_issue_from_thread(
                     issues, l.thread_ts, l.channel, mention_title(l.messages),
                     "Issue created from Slack thread in channel " \o l.channel)
    /\ hloc' = [hloc EXCEPT ![h].issue = Len(issues) + 1]
    /\ HGoto(h, "owner")
    /\ UNCHANGED <<events, jobs, programs, participants, ownerVars, envVars, requests,
                   starts, workerVars, posted, mentions>>

\* Line 133: set_issue_owner, the function of module db (line 22 imports it
\* from db): it writes the dict of that module, not the dict of slack_bot.db.
SetIssueOwner(h) ==
    /\ hpc[h] = "owner"
    /\ main_issue_owners' =
          set_issue_owner(main_issue_owners, hloc[h].issue, hloc[h].user)
    /\ HGoto(h, "link")
    /\ UNCHANGED <<dbVars, issue_owners, channel_owners, envVars, requests, starts,
                   workerVars, hloc, posted, mentions>>

\* Lines 135-136: link_issue_to_program.
LinkProgram(h) ==
    /\ hpc[h] = "link"
    /\ issues' = link_issue_to_program(issues, hloc[h].issue, hloc[h].program)
    /\ HGoto(h, "save")
    /\ UNCHANGED <<events, jobs, programs, participants, ownerVars, envVars, requests,
                   starts, workerVars, hloc, posted, mentions>>

\* Lines 138-141: save_thread_messages_as_events.
SaveEvents(h) ==
    /\ hpc[h] = "save"
    /\ LET l == hloc[h] IN
       /\ events' = save_thread_messages_as_events(events, l.issue, l.messages)
       /\ hloc' = [hloc EXCEPT ![h].events =
                      [k \in 1..Len(l.messages) |-> Len(events) + k]]
    /\ HGoto(h, "participants")
    /\ UNCHANGED <<issues, jobs, programs, participants, ownerVars, envVars, requests,
                   starts, workerVars, posted, mentions>>

\* Lines 143-160: add_participant for the requester and for every other author.
AddParticipants(h) ==
    /\ hpc[h] = "participants"
    /\ LET l == hloc[h] IN
       participants' = participants
                       \cup {NewParticipantRow(l.issue, l.user, "requester")}
                       \cup mention_watchers(l.issue, l.user, l.messages)
    /\ HGoto(h, IF hloc[h].events # <<>> THEN "enqueue" ELSE "report")
    /\ UNCHANGED <<issues, events, jobs, programs, ownerVars, envVars, requests,
                   starts, workerVars, hloc, posted, mentions>>

\* Lines 162-166: create_ai_job on the first event.
Enqueue(h) ==
    /\ hpc[h] = "enqueue"
    /\ jobs' = create_ai_job(jobs, hloc[h].events[1], "full_extraction")
    /\ requests' = Append(requests, 0)
    /\ starts' = Append(starts, 0)
    /\ HGoto(h, "summarize")
    /\ UNCHANGED <<issues, events, programs, participants, ownerVars, envVars,
                   workerVars, hloc, posted, mentions>>

\* Lines 168-171: summarize_thread is called inline; it returns an error
\* without a request, or sends the request.
Summarize(h) ==
    /\ hpc[h] = "summarize"
    /\ HGoto(h, IF summarize_precheck(hloc[h].issue).send THEN "calling" ELSE "report")
    /\ UNCHANGED <<dbVars, ownerVars, envVars, requests, starts, workerVars, hloc,
                   posted, mentions>>

\* Lines 171-177: the endpoint answers, and a summary without "error" is
\* written to the issue by update_issue_from_ai.
MentionRespond(h) ==
    /\ hpc[h] = "calling"
    /\ \E resp \in Responses :
          LET summary == summarize_response(resp) IN
          issues' = IF "error" \notin DOMAIN summary
                    THEN update_issue_from_ai(issues, hloc[h].issue, summary)
                    ELSE issues
    /\ HGoto(h, "report")
    /\ UNCHANGED <<events, jobs, programs, participants, ownerVars, envVars, requests,
                   starts, workerVars, hloc, posted, mentions>>

\* Lines 182-201: the confirmation, with the user's role and the program.
Report(h) ==
    /\ hpc[h] = "report"
    /\ LET l == hloc[h] IN
       Post(h, l.channel, l.thread_ts, "created", l.issue,
            get_user_permission(l.user, l.channel, l.issue),
            IF issues[l.issue].program_id \in DOMAIN programs
            THEN programs[issues[l.issue].program_id].name ELSE "")
    /\ HDone(h)
    /\ UNCHANGED <<dbVars, ownerVars, envVars, requests, starts, workerVars,
                   mentions>>

HandlerStep(h) ==
    \/ \E u \in Users, c \in Channels, t \in Threads \cup {""} : Mention(h, u, c, t)
    \/ Lookup(h)
    \/ CreateIssue(h)
    \/ SetIssueOwner(h)
    \/ LinkProgram(h)
    \/ SaveEvents(h)
    \/ AddParticipants(h)
    \/ Enqueue(h)
    \/ Summarize(h)
    \/ MentionRespond(h)
    \/ Report(h)

-----------------------------------------------------------------------------
(* Calls of permissions.py made by a client of the module *)

Callers == {"UA", "U1"}        \* UA is on the admin list, U1 is not

\* The rows a program can have: owners among ownerSets, soft-deleted or not.
ProgramRows(name, channels, ownerSets) ==
    {[name |-> name, owners |-> o, channels |-> channels, deleted_at |-> d] :
        o \in ownerSets, d \in BOOLEAN}

\* The arguments of a call: a channel_id ("" when left out), an issue_id (0
\* when left out; no issue has the id 2).
ChannelArgs == {""} \cup Channels
IssueArgs == {0, 1, 2}

\* A call leaves every table and both owner sets as they are.
PermFrame ==
    UNCHANGED <<dbVars, ownerVars, api_key, session, requests, starts, workerVars,
                handlerVars>>

GetUserPermission(user_id, channel_id, issue_id) ==
    /\ call' = [op |-> "get_user_permission", user |-> user_id,
                channel |-> channel_id, issue |-> issue_id,
                level |-> get_user_permission(user_id, channel_id, issue_id)]
    /\ PermFrame

HasPermission(user_id, required_permission, channel_id, issue_id) ==
    /\ call' = [op |-> "has_permission", user |-> user_id,
                required |-> required_permission,
                channel |-> channel_id, issue |-> issue_id,
                allowed |-> has_permission(user_id, required_permission,
                                           channel_id, issue_id)]
    /\ PermFrame

\* The wrapper built by require_permission(required_permission) is called on
\* an event of user_id in channel_id, with or without a keyword argument say.
RequirePermission(required_permission, user_id, channel_id, say) ==
    /\ LET r == require_permission(required_permission, user_id, channel_id, say)
       IN call' = [op |-> "require_permission", user |-> user_id,
                   required |-> required_permission, channel |-> channel_id,
                   say |-> say, ran |-> r.ran, said |-> r.said]
    /\ PermFrame

-----------------------------------------------------------------------------
(* Calls of db.py made by a client of the module *)

\* The summaries update_issue_from_ai is called with: main_issue of 250
\* characters with a summary and key points; main_issue only; a summary with
\* action items and no main_issue; the error summarize_thread returns.
Summaries ==
    {[main_issue |-> [k \in 1..250 |-> "X"], summary |-> "S",
      key_points |-> <<"a", "b">>],
     [main_issue |-> <<"M", "1">>],
     [summary |-> "S2", action_items |-> <<"x">>],
     [error |-> "No events found for this issue"]}

\* The rows an issue of thread T1 can have: stored under the bare thread id or
\* under a composite key, soft-deleted or not.
IssueRows ==
    {[NewIssueRow(<<"t">>, "d", k) EXCEPT !.deleted_at = d] :
        k \in {"T1", thread_key("C1", "T1"), thread_key("C2", "T1")},
        d \in BOOLEAN}

StoreFrame ==
    UNCHANGED <<events, jobs, programs, participants, ownerVars, api_key, session,
                requests, starts, workerVars, handlerVars>>

\* get_issue_by_thread_id: first() of a query without ORDER BY returns any of
\* the rows the query selects, None (0) when it selects none.
GetIssueByThreadId(thread_ts, channel_id) ==
    /\ \E found \in IF thread_query(thread_ts, channel_id) = {} THEN {0}
                     ELSE thread_query(thread_ts, channel_id) :
          call' = [op |-> "get_issue_by_thread_id", thread |-> thread_ts,
                   channel |-> channel_id, found |-> found]
    /\ UNCHANGED issues
    /\ StoreFrame

LinkIssueToProgram(issue_id, program_id) ==
    /\ issues' = link_issue_to_program(issues, issue_id, program_id)
    /\ call' = [op |-> "link_issue_to_program", issue |-> issue_id,
                program |-> program_id,
                returned |-> link_issue_to_program_result(issues, issue_id,
                                                          program_id)]
    /\ StoreFrame

UpdateIssueFromAi(issue_id, ai_summary) ==
    /\ issues' = update_issue_from_ai(issues, issue_id, ai_summary)
    /\ call' = [op |-> "update_issue_from_ai", issue |-> issue_id,
                summary |-> ai_summary,
                returned |-> update_issue_from_ai_result(issues, issue_id)]
    /\ StoreFrame

-----------------------------------------------------------------------------
(* web_server.py: the dashboard *)

AUTH_USERNAME == "admin"
AUTH_PASSWORD == "password"

\* get_current_user: the status of the HTTPException it raises, 0 when it
\* returns the session's user.
get_current_user(s) == IF s = "" THEN 401 ELSE 0

\* require_admin: 401 without a session, 403 for a session of another user.
require_admin(s) ==
    IF get_current_user(s) # 0 THEN get_current_user(s)
    ELSE IF s # AUTH_USERNAME THEN 403
    ELSE 0

\* update_issue_status and update_issue_priority: the status of the response
\* to a request that carries value for the field.
update_issue_code(s, issue_id, value) ==
    IF get_current_user(s) # 0 THEN get_current_user(s)
    ELSE IF issue_id \notin DOMAIN issues \/ issues[issue_id].deleted_at THEN 404
    ELSE IF value = "" THEN 400
    ELSE 200

\* update_program and delete_program: the status of the response.
program_code(s, program_id) ==
    IF require_admin(s) # 0 THEN require_admin(s)
    ELSE IF program_id \notin DOMAIN programs \/ programs[program_id].deleted_at
         THEN 404
    ELSE 200

\* update_program, lines 400-408: the row with the fields of data written.
program_updated(row, data) ==
    [row EXCEPT
        !.name = IF "name" \in DOMAIN data THEN data.name ELSE @,
        !.owners = IF "owners" \in DOMAIN data THEN data.owners ELSE @,
        !.channels = IF "channels" \in DOMAIN data THEN data.channels ELSE @]

\* The credentials, the field values and the bodies the dashboard's client sends.
Usernames == {AUTH_USERNAME, "U1"}
Passwords == {AUTH_PASSWORD, "guess"}
StatusValues == {"", "in progress", "resolved"}
PriorityValues == {"", "high"}
ProgramData ==
    {EmptyDict}
    \cup {[name |-> "Renamed"]}
    \cup {[owners |-> o] : o \in {{}, {"U1"}}}
    \cup {[channels |-> c] : c \in {{}, {"C1", "C2"}}}

\* A request to the dashboard leaves the rest as it is.
DashFrame ==
    UNCHANGED <<events, jobs, participants, ownerVars, api_key, requests, starts,
                workerVars, handlerVars>>

\* login: the session is set for the dashboard's one account.
Login(username, password) ==
    /\ session' = IF username = AUTH_USERNAME /\ password = AUTH_PASSWORD
                  THEN username ELSE session
    /\ call' = [op |-> "login", user |-> username, code |-> 303]
    /\ UNCHANGED <<issues, programs>>
    /\ DashFrame

\* logout: request.session.clear().
Logout ==
    /\ session' = ""
    /\ call' = [op |-> "logout", user |-> session, code |-> 307]
    /\ UNCHANGED <<issues, programs>>
    /\ DashFrame

\* update_issue_status: PATCH /api/issues/{issue_id}/status with body
\* {"status": new_status} ("" stands for a body without the field).
UpdateIssueStatus(issue_id, new_status) ==
    LET code == update_issue_code(session, issue_id, new_status) IN
    /\ issues' = IF code = 200
                 THEN [issues EXCEPT ![issue_id].status = new_status]
                 ELSE issues
    /\ call' = [op |-> "update_issue_status", user |-> session,
                issue |-> issue_id, code |-> code]
    /\ UNCHANGED <<programs, session>>
    /\ DashFrame

\* update_issue_priority: PATCH /api/issues/{issue_id}/priority.
UpdateIssuePriority(issue_id, new_priority) ==
    LET code == update_issue_code(session, issue_id, new_priority) IN
    /\ issues' = IF code = 200
                 THEN [issues EXCEPT ![issue_id].priority = new_priority]
                 ELSE issues
    /\ call' = [op |-> "update_issue_priority", user |-> session,
                issue |-> issue_id, code |-> code]
    /\ UNCHANGED <<programs, session>>
    /\ DashFrame

\* update_program: PUT /api/programs/{program_id}.
UpdateProgram(program_id, data) ==
    LET code == program_code(session, program_id) IN
    /\ programs' = IF code = 200
                   THEN [programs EXCEPT ![program_id] = program_updated(@, data)]
                   ELSE programs
    /\ call' = [op |-> "update_program", user |-> session,
                program |-> program_id, code |-> code]
    /\ UNCHANGED <<issues, session>>
    /\ DashFrame

\* delete_program: DELETE /api/programs/{program_id}, a soft delete.
DeleteProgram(program_id) ==
    LET code == program_code(session, program_id) IN
    /\ programs' = IF code = 200
                   THEN [programs EXCEPT ![program_id].deleted_at = TRUE]
                   ELSE programs
    /\ call' = [op |-> "delete_program", user |-> session,
                program |-> program_id, code |-> code]
    /\ UNCHANGED <<issues, session>>
    /\ DashFrame

DashboardStep ==
    \/ \E u \in Usernames, pw \in Passwords : Login(u, pw)
    \/ Logout
    \/ \E i \in IssueArgs, v \in StatusValues : UpdateIssueStatus(i, v)
    \/ \E i \in IssueArgs, v \in PriorityValues : UpdateIssuePriority(i, v)
    \/ \E p \in {"P1", "P2"}, d \in ProgramData : UpdateProgram(p, d)
    \/ \E p \in {"P1", "P2"} : DeleteProgram(p)

-----------------------------------------------------------------------------
(* Specifications *)

InitIdle ==
    /\ programs = [p \in {"P1"} |-> P1Row]
    /\ participants = {}
    /\ issue_owners = [i \in {} |-> {}]
    /\ channel_owners = [c \in {} |-> {}]
    /\ api_key \in BOOLEAN
    /\ wpc = [w \in Workers |-> "idle"]
    /\ wjobs = [w \in Workers |-> <<>>]
    /\ wcur = [w \in Workers |-> 0]
    /\ wresp = [w \in Workers |-> NoResponse]
    /\ hpc = [h \in Handlers |-> "idle"]
    /\ hloc = [h \in Handlers |-> HIdle]
    /\ posted = [h \in Handlers |-> EmptyDict]
    /\ mentions = 0
    /\ call = NoCall
    /\ session = ""
    /\ main_issue_owners = [i \in {} |-> {}]
    /\ jobs = <<>>
    /\ requests = <<>>
    /\ starts = <<>>

\* The batch worker finds a store with one issue and its event, and (the
\* default sqlite store enforces no foreign key) one event whose issue has no
\* row.  Callers of create_ai_job add jobs while the workers run.
InitJobs ==
    /\ InitIdle
    /\ issues = <<NewIssueRow(<<"t">>, "d", thread_key("C1", "T1"))>>
    /\ events = <<NewEventRow(1, Msg1), NewEventRow(0, Msg1)>>

NextJobs ==
    \/ \E w \in Workers : WorkerStep(w)
    \/ \E e \in DOMAIN events \cup {0}, t \in JobTypes : CreateAiJob(e, t)

SpecJobs == InitJobs /\ [][NextJobs]_vars

\* The Slack bot starts on an empty store; mentions are handled concurrently.
Init ==
    /\ InitIdle
    /\ issues = <<>>
    /\ events = <<>>

Next ==
    \/ \E h \in Handlers : HandlerStep(h)

Spec == Init /\ [][Next]_vars

\* One listener of app_mention and one run of the batch worker at a time.
NextPipeline ==
    \/ HandlerStep("h1")
    \/ WorkerStep("w1")

SpecPipeline == Init /\ [][NextPipeline]_vars

\* Two runs of the batch worker on a store that holds two pending jobs.
InitDrain ==
    /\ programs = [p \in {"P1"} |-> P1Row]
    /\ participants = {}
    /\ issue_owners = [i \in {} |-> {}]
    /\ channel_owners = [c \in {} |-> {}]
    /\ api_key \in BOOLEAN
    /\ wpc = [w \in Workers |-> "idle"]
    /\ wjobs = [w \in Workers |-> <<>>]
    /\ wcur = [w \in Workers |-> 0]
    /\ wresp = [w \in Workers |-> NoResponse]
    /\ hpc = [h \in Handlers |-> "idle"]
    /\ hloc = [h \in Handlers |-> HIdle]
    /\ posted = [h \in Handlers |-> EmptyDict]
    /\ mentions = 0
    /\ call = NoCall
    /\ session = ""
    /\ main_issue_owners = [i \in {} |-> {}]
    /\ issues = <<NewIssueRow(<<"t">>, "d", thread_key("C1", "T1"))>>
    /\ events = <<NewEventRow(1, Msg1), NewEventRow(0, Msg1)>>
    /\ \E e1 \in DOMAIN events \cup {0}, e2 \in DOMAIN events \cup {0},
          t1 \in JobTypes, t2 \in JobTypes :
          jobs = create_ai_job(create_ai_job(<<>>, e1, t1), e2, t2)
    /\ requests = <<0, 0>>
    /\ starts = <<0, 0>>

NextDrain ==
    \E w \in Workers :
        \/ Drain(w)
        \/ ProcessStart(w)
        \/ Resolve(w)
        \/ Respond(w)
        \/ Finish(w)
        \/ Crash(w)

SpecDrain == InitDrain /\ [][NextDrain]_vars

\* The processes are idle and no job exists.
InitQuiet ==
    /\ participants = {}
    /\ wpc = [w \in Workers |-> "idle"]
    /\ wjobs = [w \in Workers |-> <<>>]
    /\ wcur = [w \in Workers |-> 0]
    /\ wresp = [w \in Workers |-> NoResponse]
    /\ hpc = [h \in Handlers |-> "idle"]
    /\ hloc = [h \in Handlers |-> HIdle]
    /\ posted = [h \in Handlers |-> EmptyDict]
    /\ mentions = 0
    /\ call = NoCall
    /\ session = ""
    /\ main_issue_owners = [i \in {} |-> {}]
    /\ jobs = <<>>
    /\ requests = <<>>
    /\ starts = <<>>

\* One listener of app_mention while the dashboard's admin edits (the owners,
\* or the channels) and deletes the program of channel C1.
InitLinking ==
    /\ Init
    /\ api_key = TRUE

NextLinking ==
    \/ HandlerStep("h1")
    \/ Login(AUTH_USERNAME, AUTH_PASSWORD)
    \/ \E d \in {[owners |-> {"U1"}], [channels |-> {}]} : UpdateProgram("P1", d)
    \/ DeleteProgram("P1")

SpecLinking == InitLinking /\ [][NextLinking]_vars

\* The dashboard on a store with a program, an issue linked to it and a
\* soft-deleted issue; the dashboard's account is an owner of the issue in the
\* web server's owner sets, or it is not.
InitDashboard ==
    /\ InitQuiet
    /\ api_key = TRUE
    /\ programs = [p \in {"P1"} |-> P1Row]
    /\ issues = <<[NewIssueRow(<<"t">>, "d", thread_key("C1", "T1"))
                     EXCEPT !.program_id = "P1"],
                  [NewIssueRow(<<"t">>, "d", thread_key("C2", "T1"))
                     EXCEPT !.deleted_at = TRUE]>>
    /\ events = <<>>
    /\ issue_owners \in [{1} -> SUBSET {AUTH_USERNAME}]
    /\ channel_owners = [c \in {} |-> {}]

NextDashboard == DashboardStep

SpecDashboard == InitDashboard /\ [][NextDashboard]_vars

\* Permission resolution over every content of the stores it reads: program
\* P1 lists channel C1, program P2 lists no channel; the one issue is linked
\* to P1, to P2 or to no program; any owners of the issue and of channel C1.
InitPerm ==
    /\ InitQuiet
    /\ api_key = TRUE
    /\ \E p1 \in ProgramRows("Program 1", {"C1"}, {{}, {"U1"}, {"UA", "U1"}}),
          p2 \in ProgramRows("Program 2", {}, SUBSET {"U1"}) :
          programs = [p \in {"P1", "P2"} |-> IF p = "P1" THEN p1 ELSE p2]
    /\ \E p \in {"", "P1", "P2"} :
          issues = <<[NewIssueRow(<<"t">>, "d", thread_key("C1", "T1"))
                        EXCEPT !.program_id = p]>>
    /\ events = <<>>
    /\ issue_owners \in [{1} -> SUBSET {"U1"}]
    /\ channel_owners \in [{"C1"} -> {{}, {"U1"}, {"UA", "U1"}}]

NextPerm ==
    \/ \E u \in Callers, c \in ChannelArgs, i \in IssueArgs :
          GetUserPermission(u, c, i)
    \/ \E u \in Callers, r \in Permission, c \in {"", "C1"}, i \in {0, 1} :
          HasPermission(u, r, c, i)
    \/ \E u \in Callers, r \in Permission, c \in {"", "C1"}, say \in BOOLEAN :
          RequirePermission(r, u, c, say)

SpecPerm == InitPerm /\ [][NextPerm]_vars

\* The record store as a client of db.py finds it: two issues of thread T1,
\* each under either key encoding and soft-deleted or not; program P1 of
\* channel C1 and the soft-deleted program P2.  Issue 3 and program PX do not
\* exist.
InitStore ==
    /\ InitQuiet
    /\ api_key = TRUE
    /\ programs = [p \in {"P1", "P2"} |->
                      IF p = "P1" THEN P1Row
                      ELSE [P1Row EXCEPT !.name = "Program 2", !.channels = {},
                                         !.deleted_at = TRUE]]
    /\ \E i1 \in IssueRows, i2 \in IssueRows : issues = <<i1, i2>>
    /\ events = <<>>
    /\ issue_owners = [i \in {} |-> {}]
    /\ channel_owners = [c \in {} |-> {}]

NextStore ==
    \/ \E t \in {"T1", "T2"}, c \in ChannelArgs : GetIssueByThreadId(t, c)
    \/ \E i \in {1, 3}, p \in {"P1", "P2", "PX"} : LinkIssueToProgram(i, p)
    \/ \E i \in {1, 3}, s \in Summaries : UpdateIssueFromAi(i, s)

SpecStore == InitStore /\ [][NextStore]_vars

-----------------------------------------------------------------------------
(* Properties *)

Terminal == {"completed", "failed"}

\* Worker w takes a step of process_ai_job on job j.
OnJob(w, j) == (wcur[w] = j \/ wcur'[w] = j) /\ wpc'[w] # wpc[w]

\* process_ai_job returns in this step of worker w.
Returns(w) == wpc[w] \in {"claimed", "answered"} /\ wpc'[w] \in {"idle", "loop"}

\* The job's anchor event, or the event's issue, has no row.
EventMissing(job) == job.event_id \notin DOMAIN events

IssueMissing(job) ==
    /\ job.event_id \in DOMAIN events
    /\ events[job.event_id].issue_id \notin DOMAIN issues

\* The text-generation call failed: it timed out or the status is not 2xx.
CallFailed(resp) == resp.timeout \/ resp.status < 200 \/ resp.status > 299

\* The non-deleted issues stored for a thread.
IssuesOfThread(channel, thread_ts) ==
    {i \in DOMAIN issues :
        /\ issues[i].root_thread_id = channel \o ":" \o thread_ts
        /\ ~issues[i].deleted_at}

\* C1: under any interleaving of concurrent handle_app_mention invocations for
\* the same (channel, thread), at most one non-deleted issue with
\* root_thread_id "channel:thread" exists in every reachable state.
C1_OneIssuePerThread ==
    \A c \in Channels, t \in Threads : Cardinality(IssuesOfThread(c, t)) <= 1

\* C2: a job never leaves a terminal state: once it is completed or failed, no
\* later step of process_ai_job on it changes its status, its output or its
\* anchor event's metadata.
C2_TerminalIsFinal ==
    [][\A j \in DOMAIN jobs :
          jobs[j].status \in Terminal =>
             /\ jobs'[j].status = jobs[j].status
             /\ jobs'[j].output = jobs[j].output
             /\ \A w \in Workers :
                   OnJob(w, j) /\ jobs[j].event_id \in DOMAIN events =>
                      events'[jobs[j].event_id].ai_metadata =
                         events[jobs[j].event_id].ai_metadata]_vars

\* C3: with two workers running process_pending_jobs concurrently no job is
\* executed twice: every job is moved to processing by at most one
\* process_ai_job call, and at most one text-generation request is sent for it.
C3_NoJobExecutedTwice ==
    \A j \in DOMAIN jobs : starts[j] <= 1 /\ requests[j] <= 1

\* C4: when the text-generation call of a full_extraction job fails (it times
\* out or answers a non-2xx status), process_ai_job ends with the job failed
\* and an error as its output; the job is not marked completed.
C4_CallFailureFailsJob ==
    [][\A w \in Workers :
          Returns(w) /\ wpc[w] = "answered" /\ CallFailed(wresp[w]) =>
             /\ jobs'[wcur[w]].status = "failed"
             /\ "error" \in DOMAIN jobs'[wcur[w]].output]_vars

\* C5: for a job whose anchor event has no row, or whose event's issue has no
\* row, process_ai_job sends no text-generation request and returns normally
\* with the job failed and the payload "Event not found" / "Issue not found".
C5_MissingRowFailsJob ==
    [][\A w \in Workers :
          LET j == wcur[w] IN
          /\ wpc[w] = "claimed"
          /\ EventMissing(jobs[j]) \/ IssueMissing(jobs[j])
          /\ wpc'[w] # "claimed"
          /\ wpc'[w] # "stopped"
          => /\ Returns(w)
             /\ jobs'[j].status = "failed"
             /\ jobs'[j].output =
                   [error |-> IF EventMissing(jobs[j]) THEN "Event not found"
                              ELSE "Issue not found"]
             /\ requests' = requests]_vars

C5_Witness ==
    /\ \E j \in DOMAIN jobs :
          /\ EventMissing(jobs[j])
          /\ jobs[j].status = "failed"
          /\ jobs[j].output = [error |-> "Event not found"]
          /\ requests[j] = 0
    /\ \E j \in DOMAIN jobs :
          /\ IssueMissing(jobs[j])
          /\ jobs[j].status = "failed"
          /\ jobs[j].output = [error |-> "Issue not found"]
          /\ requests[j] = 0

\* C6: when the response content is not parseable as JSON the job does not
\* fail: process_ai_job ends with the job completed and the output
\* {summary: text, raw_response: text}, text being the raw content.
C6_NotJsonFallsBack ==
    [][\A w \in Workers :
          /\ Returns(w)
          /\ wpc[w] = "answered"
          /\ ~CallFailed(wresp[w])
          /\ wresp[w].wellformed
          /\ wresp[w].content = "not json"
          => /\ jobs'[wcur[w]].status = "completed"
             /\ jobs'[wcur[w]].output =
                   [summary |-> "not json", raw_response |-> "not json"]]_vars

C6_Witness ==
    \E j \in DOMAIN jobs :
       /\ jobs[j].status = "completed"
       /\ jobs[j].output = [summary |-> "not json", raw_response |-> "not json"]
       /\ requests[j] > 0

\* C7: when a full_extraction job succeeds (the endpoint answers 2xx with a
\* JSON object as content), process_ai_job leaves the job completed, with the
\* parsed object as output and a completion timestamp, and the anchor event's
\* ai_metadata equal to that object.
C7_SuccessCompletesJob ==
    [][\A w \in Workers :
          /\ Returns(w)
          /\ wpc[w] = "answered"
          /\ ~CallFailed(wresp[w])
          /\ wresp[w].wellformed
          /\ wresp[w].content = JsonSummary
          => LET j == wcur[w] IN
             /\ jobs'[j].status = "completed"
             /\ jobs'[j].output = [summary |-> "S", main_issue |-> <<"M", "1">>]
             /\ jobs'[j].completed_at
             /\ events'[jobs[j].event_id].ai_metadata = jobs'[j].output]_vars

C7_Witness ==
    \E j \in DOMAIN jobs :
       /\ jobs[j].status = "completed"
       /\ jobs[j].completed_at
       /\ jobs[j].output = [summary |-> "S", main_issue |-> <<"M", "1">>]
       /\ events[jobs[j].event_id].ai_metadata = jobs[j].output

\* C8, as claimed: a job whose job_type is not full_extraction ends failed
\* with an "Unknown job type" payload, without a text-generation request and
\* with the events unchanged.
C8_UnknownTypeAlwaysNamed ==
    [][\A w \in Workers :
          LET j == wcur[w] IN
          /\ wpc[w] = "claimed"
          /\ jobs[j].job_type # "full_extraction"
          /\ wpc'[w] # "claimed"
          /\ wpc'[w] # "stopped"
          => /\ Returns(w)
             /\ jobs'[j].status = "failed"
             /\ jobs'[j].output = [error |-> "Unknown job type: " \o jobs[j].job_type]
             /\ requests' = requests
             /\ events' = events]_vars

\* C8, amended: a job whose job_type is not full_extraction ends failed,
\* without a text-generation request and with the events unchanged; its
\* payload is "Unknown job type" when its anchor event and the event's issue
\* exist, and the not-found payload of the missing row otherwise.
C8_UnknownTypeRejected ==
    [][\A w \in Workers :
          LET j == wcur[w] IN
          /\ wpc[w] = "claimed"
          /\ jobs[j].job_type # "full_extraction"
          /\ wpc'[w] # "claimed"
          /\ wpc'[w] # "stopped"
          => /\ Returns(w)
             /\ jobs'[j].status = "failed"
             /\ jobs'[j].output =
                   [error |-> IF EventMissing(jobs[j]) THEN "Event not found"
                              ELSE IF IssueMissing(jobs[j]) THEN "Issue not found"
                              ELSE "Unknown job type: " \o jobs[j].job_type]
             /\ requests' = requests
             /\ events' = events]_vars

C8_Witness ==
    \E j \in DOMAIN jobs :
       /\ jobs[j].job_type = "quick_tag"
       /\ ~EventMissing(jobs[j])
       /\ ~IssueMissing(jobs[j])
       /\ jobs[j].status = "failed"
       /\ jobs[j].output = [error |-> "Unknown job type: quick_tag"]
       /\ requests[j] = 0
       /\ events[jobs[j].event_id].ai_metadata = EmptyDict

\* C9: create_ai_job inserts exactly one job, pending, and starts no
\* execution: the step changes no issue, no event and no worker; a job leaves
\* pending only in the step in which process_ai_job is called on it, and no
\* step of handle_app_mention, which enqueues the job, changes a stored job.
C9_EnqueueDoesNotExecute ==
    [][/\ Len(jobs') # Len(jobs) =>
             /\ Len(jobs') = Len(jobs) + 1
             /\ SubSeq(jobs', 1, Len(jobs)) = jobs
             /\ jobs'[Len(jobs')].status = "pending"
             /\ jobs'[Len(jobs')].output = EmptyDict
             /\ UNCHANGED <<issues, events, workerVars>>
       /\ \A j \in DOMAIN jobs :
             jobs[j].status = "pending" /\ jobs'[j].status # "pending" =>
                \E w \in Workers :
                   wpc[w] = "loop" /\ wpc'[w] = "claimed" /\ wcur'[w] = j
       /\ \A h \in Handlers :
             hpc'[h] # hpc[h] => \A j \in DOMAIN jobs : jobs'[j] = jobs[j]]_vars

C9_Witness ==
    /\ hpc["h1"] = "idle"
    /\ posted["h1"] # EmptyDict
    /\ posted["h1"].text = "created"
    /\ \E j \in DOMAIN jobs : jobs[j].status = "pending" /\ starts[j] = 0

\* C10: process_ai_job persists the status processing before it resolves the
\* event or calls the model: in every state in which a job's text-generation
\* request is outstanding, or in which its execution stopped mid-run, the
\* stored status of the job is processing.
C10_ProcessingWhileRunning ==
    \A w \in Workers :
       wpc[w] \in {"calling", "stopped"} => jobs[wcur[w]].status = "processing"

-----------------------------------------------------------------------------
(* Properties of permission resolution *)

\* The non-deleted programs that list the channel.
ProgramsOfChannel(channel_id) ==
    {p \in DOMAIN programs :
        channel_id \in programs[p].channels /\ ~programs[p].deleted_at}

\* The program the issue is linked to.
ProgramsOfIssue(issue_id) ==
    {p \in DOMAIN programs :
        issue_id \in DOMAIN issues /\ issues[issue_id].program_id = p}

\* A program among ps lists the user among its owners.
ListedBy(ps, user_id) == \E p \in ps : user_id \in programs[p].owners

\* The relevant program of a request: the one bound to the channel or, when
\* there is none, the one linked to the issue.
RelevantPrograms(channel_id, issue_id) ==
    IF channel_id # "" /\ ProgramsOfChannel(channel_id) # {}
    THEN ProgramsOfChannel(channel_id)
    ELSE IF issue_id # 0 THEN ProgramsOfIssue(issue_id) ELSE {}

\* The user is in the owner set of the channel or of the issue.
InOwnerSet(user_id, channel_id, issue_id) ==
    \/ channel_id \in DOMAIN channel_owners /\ user_id \in channel_owners[channel_id]
    \/ issue_id \in DOMAIN issue_owners /\ user_id \in issue_owners[issue_id]

\* The order USER < OWNER < PROGRAM_OWNER < ADMIN.
LevelOrder == <<"user", "owner", "program_owner", "admin">>

LevelLeq(a, b) ==
    \E m, n \in DOMAIN LevelOrder :
        LevelOrder[m] = a /\ LevelOrder[n] = b /\ m <= n

\* C11: for a user on the admin list get_user_permission returns ADMIN,
\* whatever channel and issue it is called with and whatever the programs and
\* the owner sets hold.
C11_AdminResolvesToAdmin ==
    (call.op = "get_user_permission" /\ call.user \in ADMIN_USERS)
        => call.level = "admin"

\* An admin who also owns the channel's program and is in the channel's owner
\* set has asked for their level.
C11_Witness ==
    /\ call.op = "get_user_permission"
    /\ call.user = "UA" /\ call.channel = "C1" /\ call.issue = 1
    /\ ListedBy(ProgramsOfChannel("C1"), "UA")
    /\ InOwnerSet("UA", "C1", 1)
    /\ call.level = "admin"

\* C12: a user who is not an admin, is an owner of the relevant program and is
\* in the owner set of the issue or of the channel resolves to PROGRAM_OWNER,
\* not to OWNER.
C12_ProgramOwnerBeforeOwner ==
    (/\ call.op = "get_user_permission"
     /\ call.user \notin ADMIN_USERS
     /\ ListedBy(RelevantPrograms(call.channel, call.issue), call.user)
     /\ InOwnerSet(call.user, call.channel, call.issue))
        => call.level = "program_owner"

\* U1 owns the program of channel C1 and is in the owner set of issue 1.
C12_Witness ==
    /\ call.op = "get_user_permission"
    /\ call.user = "U1" /\ call.channel = "C1" /\ call.issue = 1
    /\ ListedBy(ProgramsOfChannel("C1"), "U1")
    /\ "U1" \in issue_owners[1]
    /\ call.level = "program_owner"

\* C13 as stated: when a program is bound to the channel and does not list the
\* user among its owners, the user does not resolve to PROGRAM_OWNER, even if
\* the program linked to the issue lists them.
C13_IssueProgramOnlyWithoutChannelProgram ==
    (/\ call.op = "get_user_permission"
     /\ call.channel # ""
     /\ ProgramsOfChannel(call.channel) # {}
     /\ ~ListedBy(ProgramsOfChannel(call.channel), call.user))
        => call.level # "program_owner"

\* C13 as amended: when a program is bound to the channel and does not list
\* the user among its owners, a user who is not an admin resolves to
\* PROGRAM_OWNER exactly when the program linked to the issue lists them.
C13_IssueProgramAlsoConsulted ==
    (/\ call.op = "get_user_permission"
     /\ call.user \notin ADMIN_USERS
     /\ call.channel # ""
     /\ ProgramsOfChannel(call.channel) # {}
     /\ ~ListedBy(ProgramsOfChannel(call.channel), call.user))
        => (call.level = "program_owner"
               <=> ListedBy(ProgramsOfIssue(call.issue), call.user))

\* The program of channel C1 does not list U1, the program of issue 1 does.
C13_Witness ==
    /\ call.op = "get_user_permission"
    /\ call.user = "U1" /\ call.channel = "C1" /\ call.issue = 1
    /\ ProgramsOfChannel("C1") # {}
    /\ ~ListedBy(ProgramsOfChannel("C1"), "U1")
    /\ ListedBy(ProgramsOfIssue(1), "U1")
    /\ call.level = "program_owner"

\* C14: has_permission is monotonic in the order USER < OWNER < PROGRAM_OWNER
\* < ADMIN: when it grants a level to a user it grants every lower level, for
\* the same channel, issue and stores.
C14_HasPermissionMonotonic ==
    (call.op = "has_permission" /\ call.allowed)
        => \A lower \in Permission :
              LevelLeq(lower, call.required)
                  => has_permission(call.user, lower, call.channel, call.issue)

\* A user who is not an admin was granted PROGRAM_OWNER.
C14_Witness ==
    /\ call.op = "has_permission"
    /\ call.user = "U1"
    /\ call.required = "program_owner"
    /\ call.allowed

\* C15: when the permission check fails for the event's user, the wrapper
\* built by require_permission does not call the guarded function, and it
\* emits a denial message.
C15_DenialSkipsAndReports ==
    (/\ call.op = "require_permission"
     /\ ~LevelLeq(call.required,
                  get_user_permission(call.user, call.channel, 0)))
        => (~call.ran /\ call.said # "")

-----------------------------------------------------------------------------
(* Properties of the thread registry and of issue reconciliation *)

\* C16: get_issue_by_thread_id never returns a soft-deleted issue, called
\* with a channel or without one.
C16_DeletedIssueNeverReturned ==
    (call.op = "get_issue_by_thread_id" /\ call.found # 0)
        => ~issues[call.found].deleted_at

\* A lookup without a channel has returned an issue while a soft-deleted
\* issue is stored under the thread's bare id.
C16_Witness ==
    /\ call.op = "get_issue_by_thread_id"
    /\ call.channel = ""
    /\ call.found # 0
    /\ \E i \in DOMAIN issues :
          issues[i].deleted_at /\ issues[i].root_thread_id = call.thread

\* C17: a lookup with a channel falls back to the legacy encoding: when a
\* non-deleted issue is stored under the bare thread id, the lookup of that
\* thread returns an issue.
C17_LegacyKeyResolvedWithChannel ==
    (/\ call.op = "get_issue_by_thread_id"
     /\ call.channel # ""
     /\ \E i \in DOMAIN issues :
           ~issues[i].deleted_at /\ issues[i].root_thread_id = call.thread)
        => call.found # 0

\* A non-deleted program has the program_id.
LiveProgram(program_id) ==
    program_id \in DOMAIN programs /\ ~programs[program_id].deleted_at

\* C18: link_issue_to_program returns None and leaves the issue's program as
\* it was when no non-deleted program has the program_id; otherwise it sets
\* the issue's program to that program.
C18_LinkSetsOrLeaves ==
    [][(call'.op = "link_issue_to_program" /\ call'.issue \in DOMAIN issues)
          => IF LiveProgram(call'.program)
             THEN /\ issues'[call'.issue].program_id = call'.program
                  /\ call'.returned = call'.issue
             ELSE /\ call'.returned = 0
                  /\ issues' = issues]_vars

\* A call has linked issue 1 to the non-deleted program P1 and returned it.
C18_Witness ==
    /\ call.op = "link_issue_to_program"
    /\ call.issue = 1 /\ call.program = "P1" /\ call.returned = 1
    /\ issues[1].program_id = "P1"

\* The description the claim gives for the example.
C19_ExampleDescription ==
    "S\n\nKey Points:\n" \o Bullet \o " a\n" \o Bullet \o " b"

\* C19: for {main_issue: "X"*250, summary: "S", key_points: ["a", "b"]}
\* update_issue_from_ai sets the title to "X"*200 and the description to the
\* summary, a blank line, and the Key Points block with one line per item.
C19_ExampleTitleAndDescription ==
    (/\ call.op = "update_issue_from_ai"
     /\ call.returned # 0
     /\ call.summary = [main_issue |-> [k \in 1..250 |-> "X"], summary |-> "S",
                        key_points |-> <<"a", "b">>])
        => /\ issues[call.returned].title = [k \in 1..200 |-> "X"]
           /\ issues[call.returned].description = C19_ExampleDescription

\* C20: update_issue_from_ai returns None and changes no record when the issue
\* has no row or is soft-deleted; on an existing issue it leaves the title as
\* it was when the summary has no main_issue, and the description when the
\* summary has no summary field.
C20_UpdateLeavesTheRest ==
    [][call'.op = "update_issue_from_ai"
          => LET i == call'.issue
                 s == call'.summary
             IN IF i \notin DOMAIN issues \/ issues[i].deleted_at
                THEN /\ call'.returned = 0
                     /\ UNCHANGED <<dbVars, ownerVars>>
                ELSE /\ "main_issue" \notin DOMAIN s
                            => issues'[i].title = issues[i].title
                     /\ "summary" \notin DOMAIN s
                            => issues'[i].description = issues[i].description]_vars

\* A call on the soft-deleted issue 1 has returned None, with a summary that
\* would have changed its title.
C20_Witness ==
    /\ call.op = "update_issue_from_ai"
    /\ call.issue = 1
    /\ issues[1].deleted_at
    /\ "main_issue" \in DOMAIN call.summary
    /\ call.returned = 0
    /\ issues[1].title = <<"t">>

-----------------------------------------------------------------------------
(* Properties of the job pipeline, continued *)

\* What summarize_thread returns when call_ai_api raises for the missing key.
KeyMissing == [error |-> "AI_API_KEY environment variable is not set"]

\* C21: without an API key no request is ever sent to the endpoint, and a
\* full_extraction job that reached summarize_thread ends with the missing-key
\* error, which differs from the outcome of every failed call of the endpoint.
C21_MissingKeyFailsBeforeRequest ==
    ~api_key =>
        \A j \in DOMAIN jobs :
            /\ requests[j] = 0
            /\ jobs[j].status = "completed"
                   => /\ jobs[j].output = KeyMissing
                      /\ \A resp \in Responses :
                            CallFailed(resp) => summarize_response(resp) # jobs[j].output

\* Without a key a job was run on an event whose issue has messages.
C21_Witness ==
    /\ ~api_key
    /\ \E j \in DOMAIN jobs :
          /\ jobs[j].status = "completed"
          /\ jobs[j].output = KeyMissing
          /\ requests[j] = 0

\* C23: once process_ai_job has completed a full_extraction job whose summary
\* carries a main_issue or a summary, the owning issue's title and description
\* are the ones update_issue_from_ai derives from that summary.
C23_CompletedJobReconcilesIssue ==
    \A j \in DOMAIN jobs :
        LET job == jobs[j] IN
        (/\ job.status = "completed"
         /\ job.job_type = "full_extraction"
         /\ TruthySeq(job.output, "main_issue") \/ TruthyStr(job.output, "summary"))
        => LET i == events[job.event_id].issue_id IN
           issues = update_issue_from_ai(issues, i, job.output)

\* C24: an event's ai_metadata, once non-empty, never changes, and no other
\* field of an event row ever changes.
C24_MetadataSetOnce ==
    [][\A e \in DOMAIN events :
          /\ events[e].ai_metadata # EmptyDict
                => events'[e].ai_metadata = events[e].ai_metadata
          /\ [events'[e] EXCEPT !.ai_metadata = EmptyDict]
                = [events[e] EXCEPT !.ai_metadata = EmptyDict]]_vars

\* C28: a job carries completed_at exactly when its status is completed.
C28_CompletedAtIffCompleted ==
    \A j \in DOMAIN jobs : jobs[j].completed_at <=> jobs[j].status = "completed"

\* C25: when a run of process_pending_jobs returns, every job that was pending
\* when the run started (the list it was started on) is completed or failed.
C25_DrainLeavesListedJobsTerminal ==
    [][\A w \in Workers :
          (/\ wpc[w] \notin {"idle", "stopped"}
           /\ wpc'[w] = "idle"
           /\ call.op = "process_pending_jobs"
           /\ call.worker = w)
          => \A k \in 1..Len(call.listed) :
                jobs'[call.listed[k]].status \in Terminal]_vars

-----------------------------------------------------------------------------
(* Properties of the dashboard *)

\* The last request to the dashboard changed an issue.
IssueRequest(c) == c.op \in {"update_issue_status", "update_issue_priority"}

\* The last request to the dashboard edited or deleted a program.
ProgramRequest(c) == c.op \in {"update_program", "delete_program"}

\* C22: a request to the dashboard changes an issue only if has_permission
\* gives its user the level of an owner on that issue, and changes a program
\* only if has_permission gives its user the level of an admin.
C22_DashboardChangesArePermitted ==
    [][/\ (IssueRequest(call') /\ issues' # issues)
            => has_permission(call'.user, "owner", "", call'.issue)
       /\ (ProgramRequest(call') /\ programs' # programs)
            => has_permission(call'.user, "admin", "", 0)]_vars

-----------------------------------------------------------------------------
(* Properties of the owner sets *)

\* C26: the call of get_user_permission that follows an ownership change
\* reflects it: handle_app_mention makes the user an owner of the issue it
\* created (set_issue_owner), so the level its next call of
\* get_user_permission on that user and issue reports is at least OWNER.
C26_NewOwnerResolvesToOwner ==
    \A h \in Handlers :
        ("text" \in DOMAIN posted[h] /\ posted[h].text = "created")
        => LevelLeq("owner", posted[h].role)

-----------------------------------------------------------------------------
(* Properties of the link between an issue and its program *)

\* The positions of handle_app_mention after line 136.
PastLink == {"save", "participants", "enqueue", "summarize", "calling", "report"}

\* C27 as stated: once handle_app_mention is past link_issue_to_program, the
\* issue it created is linked to the program it found for the channel.
C27_CreatedIssueLinkedToItsProgram ==
    \A h \in Handlers :
        hpc[h] \in PastLink
        => issues[hloc[h].issue].program_id = hloc[h].program

\* C27, amended: link_issue_to_program links the issue the handler created to
\* the program the handler found for the channel, unless that program has
\* been soft-deleted since, and then it leaves the issue linked to no program;
\* the rest of the handler and the edits of the program leave the link as it is.
C27_LinkedUnlessProgramDeleted ==
    [][\A h \in Handlers :
          LET i == hloc[h].issue
              p == hloc[h].program
          IN /\ (hpc[h] = "link" /\ hpc'[h] # "link")
                  => issues'[i].program_id
                        = IF programs[p].deleted_at THEN "" ELSE p
             /\ hpc[h] \in PastLink
                  => issues'[i].program_id = issues[i].program_id]_vars

\* The program was deleted between the handler's lookup and its call of
\* link_issue_to_program, and the issue is linked to no program.
C27_Witness ==
    \E h \in Handlers :
        /\ hpc[h] \in PastLink
        /\ programs[hloc[h].program].deleted_at
        /\ issues[hloc[h].issue].program_id = ""

====
